---- MODULE Spec2Model ----
\* Artifact modification pipeline of the AI game generator:
\* GameGenerator.generate_game / regenerate_game, ModificationEngine.apply_modification
\* and AIService.modify_game, operating on one shared GameState (the version chain).
EXTENDS Integers, Sequences, FiniteSets, TLC

\* ---------------------------------------------------------------------------
\* Bounds of the model
\* ---------------------------------------------------------------------------

\* Largest number of version records a chain grows to.
MaxVersions == 3

\* Coroutines that may run apply_modification / regenerate_game on the same GameState.
Requests == {1, 2}

\* ---------------------------------------------------------------------------
\* Artifacts: game code as a sequence of lexical fragments
\* ---------------------------------------------------------------------------

\* Fragments an artifact is built from.
\*   DOCTYPE  "<!DOCTYPE html>"
\*   BODY     "<html>...<script>...</script>...</html>" (the other required patterns)
\*   "#0066cc", "#ff0000", ...  the text of a hex colour, in any letter case
\*   SQ, DQ   a single and a double quotation mark
\*   "#"      a number sign that is not part of a hex colour
\*   EVAL     a call of eval( (blocked pattern, dangerous pattern, blocked keyword)
\*   BADURL   src="http://[x" : a link on which urllib.parse.urlparse raises ValueError
Tokens ==
    {"DOCTYPE", "BODY", "#0066cc", "#ff0000", "#0000ff", "SQ", "DQ", "#", "EVAL", "BADURL"}

\* UTF-8 byte length of each fragment.
TokenSize(t) ==
    CASE t = "DOCTYPE" -> 15
      [] t = "BODY"    -> 60
      [] t = "EVAL"    -> 8
      [] t = "BADURL"  -> 16
      [] t \in {"SQ", "DQ", "#"} -> 1
      [] OTHER         -> 7

RECURSIVE CodeSize(_)
\* len(code.encode("utf-8"))
CodeSize(a) == IF a = <<>> THEN 0 ELSE TokenSize(Head(a)) + CodeSize(Tail(a))

\* True iff fragment t occurs in artifact a.
Contains(a, t) == \E i \in 1..Len(a) : a[i] = t

\* Artifacts the text generator is taken to answer with (after code extraction).
AiArtifacts ==
    { <<"DOCTYPE", "BODY", "DQ", "#0066cc", "DQ">>,
      <<"DOCTYPE", "BODY", "EVAL">>,
      <<"BODY", "DQ", "#0066cc", "DQ">>,
      <<"DOCTYPE", "BODY", "BADURL">> }

\* Request messages, as the set of keywords that occur in message.lower().
Messages ==
    { {"color", "red"},      \* "change the player color to red"
      {"red"},               \* "make the player red"
      {"add", "enemy"} }     \* "add an enemy"

NoMessage == {"-"}

\* ---------------------------------------------------------------------------
\* validator.validate_game_code
\* ---------------------------------------------------------------------------

\* SecurityValidator.validate_html_content: blocked patterns, then required patterns,
\* then the external links. Raises (ValueError from urlparse) on a malformed external
\* link.
ValidateHtmlContent(a) ==
    [ raised |-> Contains(a, "BADURL"),
      issues |-> (IF Contains(a, "EVAL") THEN <<"Blocked pattern detected: eval">> ELSE <<>>)
                 \o (IF ~Contains(a, "DOCTYPE")
                       THEN <<"Required pattern missing: <!DOCTYPE html>">> ELSE <<>>)
                 \o (IF ~Contains(a, "BODY")
                       THEN <<"Required pattern missing: <html.*>">> ELSE <<>>)
                 \o (IF Contains(a, "FOREIGN")
                       THEN <<"Unauthorized external domain">> ELSE <<>>) ]

\* SecurityValidator.validate_javascript_code: dangerous patterns, blocked keywords and
\* the balance of the braces.
ValidateJavascriptCode(a) ==
    (IF Contains(a, "EVAL") THEN <<"Dangerous JavaScript pattern: eval">> ELSE <<>>)
    \o (IF Contains(a, "INNERHTML")
          THEN <<"Dangerous JavaScript pattern: innerHTML">> ELSE <<>>)
    \o (IF Contains(a, "EVAL") THEN <<"Blocked keyword detected: eval">> ELSE <<>>)
    \o (IF Contains(a, "BRACES") THEN <<"Unbalanced braces in JavaScript">> ELSE <<>>)

\* ComprehensiveValidator.validate_game_code: (is_valid, all_issues), or raises
\* (from validate_html_content, or UnicodeEncodeError from code.encode at the size
\* check).
ValidateGameCode(a) ==
    LET html == ValidateHtmlContent(a)
        all_issues == html.issues \o ValidateJavascriptCode(a)
        raises == html.raised \/ Contains(a, "SURROGATE")
    IN  [ raised   |-> raises,
          is_valid |-> (~raises) /\ Len(all_issues) = 0,
          issues   |-> IF raises THEN <<>> ELSE all_issues ]

\* An artifact the validator accepts.
IsValidArtifact(a) == ValidateGameCode(a).is_valid

\* ---------------------------------------------------------------------------
\* AIService helpers
\* ---------------------------------------------------------------------------

\* True iff some issue text contains "DOCTYPE".
MentionsDoctype(issues) ==
    \E i \in 1..Len(issues) : issues[i] = "Required pattern missing: <!DOCTYPE html>"

\* AIService._fix_code_sync: prepend the doctype when an issue names it; no issue text
\* of the validator contains "closing tag", so the second fix never applies.
FixCodeSync(a, issues) ==
    IF MentionsDoctype(issues) /\ ~Contains(a, "DOCTYPE") THEN <<"DOCTYPE">> \o a ELSE a

\* Hex colour literals found in an artifact.
Colors(a) == {a[i] : i \in 1..Len(a)} \cap {"#0066cc", "#ff0000", "#0000ff"}

\* AIService._analyze_code_changes_fast
AnalyzeCodeChangesFast(original_code, modified_code) ==
    IF original_code = modified_code THEN <<"no_changes">>
    ELSE <<"code_modified">>
         \o (IF CodeSize(modified_code) # CodeSize(original_code)
               THEN <<"size_changed">> ELSE <<>>)
         \o (IF Colors(original_code) # Colors(modified_code)
               THEN <<"colors_modified">> ELSE <<>>)

\* The text generator's answer to one modify_game / generate_game call, as far as the
\* pipeline can tell outcomes apart:
\*   invalid_request  validator rejects the request text (AIServiceError before the API call)
\*   breaker_open     CircuitBreaker.call refuses the call
\*   api_error        timeout, rate limit or other API failure after the retries
\*   no_html          the answer holds no HTML (_extract_game_code_sync raises)
\*   content          the answer holds the artifact `content`; timed_out tells whether
\*                    the validation task ran into its timeout (taken for the one
\*                    artifact on which the validator would otherwise raise)
NoCode == <<>>

AiOutcomes ==
    { [kind |-> k, content |-> NoCode, timed_out |-> FALSE]
        : k \in {"invalid_request", "breaker_open", "api_error", "no_html"} }
    \cup
    { [kind |-> "content", content |-> a, timed_out |-> FALSE] : a \in AiArtifacts }
    \cup
    { [kind |-> "content", content |-> <<"DOCTYPE", "BODY", "BADURL">>, timed_out |-> TRUE] }

\* AIService._extract_ai_response is called by modify_game (line 605) but the class
\* defines no such method: the call raises AttributeError.
ExtractAiResponse(content) == [raised |-> TRUE, text |-> ""]

\* Validation of generated code with its timeout, followed by the quick fix
\* (modify_game lines 607-617, generate_game lines 486-497).
\* A timeout counts as valid; a raise of the validator propagates.
ValidateAndFix(content, timed_out) ==
    LET v           == ValidateGameCode(content)
        code_valid  == IF timed_out THEN TRUE ELSE v.is_valid
        code_issues == IF timed_out THEN <<>> ELSE v.issues
    IN  [ raised |-> (~timed_out) /\ v.raised,
          code   |-> IF (~code_valid) /\ code_issues # <<>>
                       THEN FixCodeSync(content, code_issues) ELSE content,
          validation_issues |-> IF ~code_valid THEN code_issues ELSE <<>> ]

AiRaised == [raised |-> TRUE]

\* modify_game lines 619-638: the result dictionary built from the fixed code.
ModificationResult(current_code, fixed, text) ==
    [ raised                |-> FALSE,
      modified_code         |-> fixed.code,
      ai_response           |-> text,
      modifications_applied |-> AnalyzeCodeChangesFast(current_code, fixed.code),
      validation_issues     |-> fixed.validation_issues,
      code_changed          |-> current_code # fixed.code ]

\* AIService.modify_game(request, current_code, context) on a cache miss: the result
\* dictionary, or raised = TRUE when it raises AIServiceError (every exception inside
\* is wrapped).
ModifyGame(current_code, out) ==
    IF out.kind # "content" THEN AiRaised
    ELSE LET ai_response == ExtractAiResponse(out.content)
             fixed       == ValidateAndFix(out.content, out.timed_out)
         IN  IF ai_response.raised \/ fixed.raised THEN AiRaised
             ELSE ModificationResult(current_code, fixed, ai_response.text)

\* What _get_cached_response may return for the key of (message, hash of current_code)
\* when the store holds a fresh entry: a result dictionary as _cache_response stores
\* it (modify_game line 646), built for that same current code. The store is Redis,
\* shared with every other writer of the ai_cache keys; modify_game itself never gets
\* as far as line 646 (see ExtractAiResponse).
\* The entry is named by the artifact the text generator answered with when it was
\* stored.
CachedArtifacts ==
    { <<"DOCTYPE", "BODY", "DQ", "#ff0000", "DQ">>,
      <<"DOCTYPE", "BODY", "EVAL">> }

CachedResponse(current_code, a) ==
    ModificationResult(current_code, ValidateAndFix(a, FALSE), "cached_text")

\* AIService.generate_game(request): the generated game code, or raised = TRUE.
\* The generated code is returned whether or not it validated.
AiGenerateGame(out) ==
    IF out.kind # "content" THEN AiRaised
    ELSE LET fixed == ValidateAndFix(out.content, out.timed_out)
         IN  IF fixed.raised THEN AiRaised
             ELSE [raised |-> FALSE, game_code |-> fixed.code]

\* ---------------------------------------------------------------------------
\* ModificationEngine: strategy selection and the targeted patch
\* ---------------------------------------------------------------------------

simple_patterns ==
    {"color", "size", "speed", "bigger", "smaller", "faster", "slower", "red", "blue", "green"}

complex_patterns ==
    {"add", "remove", "create", "new", "feature", "level", "enemy", "sound", "physics"}

\* Variant: the targeted patch is also chosen when the two scores are equal.
AnalyzeModificationRequest_Ties(message) ==
    LET simple_score  == Cardinality(simple_patterns \cap message)
        complex_score == Cardinality(complex_patterns \cap message)
    IN  IF simple_score >= complex_score /\ simple_score > 0
          THEN [ strategy      |-> "targeted_change",
                 confidence    |-> <<simple_score, Cardinality(simple_patterns)>>,
                 simple_score  |-> simple_score,
                 complex_score |-> complex_score ]
          ELSE [ strategy      |-> "ai_regeneration",
                 confidence    |-> IF complex_score > 0
                                     THEN <<complex_score, Cardinality(complex_patterns)>>
                                     ELSE <<1, 2>>,
                 simple_score  |-> simple_score,
                 complex_score |-> complex_score ]

\* ModificationEngine._analyze_modification_request; confidence is the pair
\* <<numerator, denominator>> of the quotient the code computes.
AnalyzeModificationRequest(message) ==
    LET simple_score  == Cardinality(simple_patterns \cap message)
        complex_score == Cardinality(complex_patterns \cap message)
    IN  IF simple_score > complex_score /\ simple_score > 0
          THEN [ strategy      |-> "targeted_change",
                 confidence    |-> <<simple_score, Cardinality(simple_patterns)>>,
                 simple_score  |-> simple_score,
                 complex_score |-> complex_score ]
          ELSE [ strategy      |-> "ai_regeneration",
                 confidence    |-> IF complex_score > 0
                                     THEN <<complex_score, Cardinality(complex_patterns)>>
                                     ELSE <<1, 2>>,
                 simple_score  |-> simple_score,
                 complex_score |-> complex_score ]

\* Colour names of _extract_color_changes in dictionary order, with their hex literal.
color_names ==
    << <<"red", "#ff0000">>, <<"blue", "#0000ff">>, <<"green", "#00ff00">>,
       <<"yellow", "#ffff00">>, <<"purple", "#800080">>, <<"orange", "#ffa500">>,
       <<"pink", "#ffc0cb">>, <<"black", "#000000">>, <<"white", "#ffffff">> >>

NoMapping == <<>>

\* ModificationEngine._extract_color_changes: the first colour name found in the message
\* maps the fixed literal #0066cc to its hex value; <<old, new>> or NoMapping.
ExtractColorChanges(message) ==
    LET found == {i \in 1..Len(color_names) : color_names[i][1] \in message}
    IN  IF found = {} THEN NoMapping
        ELSE LET first == CHOOSE i \in found : \A j \in found : i <= j
             IN  <<"#0066cc", color_names[first][2]>>

\* How re.sub treats the inline flag (?i) in the middle of the second pattern of
\* replace_color_values: interpreters before 3.11 apply it, later ones raise re.error.
InlineFlagOutcomes == {"applied", "error"}

Quotes == {"SQ", "DQ"}

RECURSIVE SubDoubledHash(_, _, _)
\* The first re.sub of replace_color_values: the pattern is a quotation mark, "#", the
\* old colour (whose own "#" is escaped) and a quotation mark; each match, found from
\* left to right without overlap, becomes the new colour in double quotes.
SubDoubledHash(js_content, old_color, new_color) ==
    IF Len(js_content) < 4 THEN js_content
    ELSE IF /\ js_content[1] \in Quotes
            /\ js_content[2] = "#"
            /\ js_content[3] = old_color
            /\ js_content[4] \in Quotes
           THEN <<"DQ", new_color, "DQ">>
                \o SubDoubledHash(SubSeq(js_content, 5, Len(js_content)), old_color, new_color)
           ELSE <<Head(js_content)>>
                \o SubDoubledHash(Tail(js_content), old_color, new_color)

RECURSIVE SubQuotedColor(_, _, _)
\* The second re.sub: a quotation mark, the old colour, a quotation mark.
SubQuotedColor(js_content, old_color, new_color) ==
    IF Len(js_content) < 3 THEN js_content
    ELSE IF /\ js_content[1] \in Quotes
            /\ js_content[2] = old_color
            /\ js_content[3] \in Quotes
           THEN <<"DQ", new_color, "DQ">>
                \o SubQuotedColor(SubSeq(js_content, 4, Len(js_content)), old_color, new_color)
           ELSE <<Head(js_content)>>
                \o SubQuotedColor(Tail(js_content), old_color, new_color)

\* JavaScriptParser.replace_color_values for the one pair of the mapping: the two
\* substitutions one after the other; raised = TRUE when re.sub rejects the second
\* pattern.
ReplaceColorValues(js_content, color_mapping, inline_flag) ==
    [ raised |-> inline_flag = "error",
      code   |-> SubQuotedColor(
                     SubDoubledHash(js_content, color_mapping[1], color_mapping[2]),
                     color_mapping[1], color_mapping[2]) ]

\* ModificationEngine._apply_color_changes
ApplyColorChanges(code, message, inline_flag) ==
    LET color_mapping == ExtractColorChanges(message)
        replaced      == ReplaceColorValues(code, color_mapping, inline_flag)
    IN  IF color_mapping # NoMapping /\ ~replaced.raised
          THEN [code |-> replaced.code, changed |-> TRUE,
                changes |-> <<"Changed colors">>]
          ELSE [code |-> code, changed |-> FALSE, changes |-> <<>>]

\* ModificationEngine._apply_size_changes and _apply_speed_changes: not implemented,
\* they return the code unchanged.
ApplySizeChanges(code, message) == [code |-> code, changed |-> FALSE, changes |-> <<>>]

ApplySpeedChanges(code, message) == [code |-> code, changed |-> FALSE, changes |-> <<>>]

\* ModificationEngine._generate_modification_response
GenerateModificationResponse(modifications) ==
    IF Len(modifications) = 0 THEN "I've updated your game as requested!"
    ELSE IF Len(modifications) = 1 THEN "I've applied the following change"
    ELSE "I've applied the following changes"

\* Lines 139-141, 150-152, 160-162 of _apply_targeted_modification: a sub-transform that reports a change
\* replaces the working code and adds its entries to modifications_applied.
TakeSubResult(work, sub_result) ==
    IF sub_result.changed
      THEN [code |-> sub_result.code, mods |-> work.mods \o sub_result.changes]
      ELSE work

\* Lines 136-141: the colour sub-transform, tried when the message mentions "color".
ColorStep(work, message, inline_flag) ==
    IF "color" \in message
      THEN TakeSubResult(work, ApplyColorChanges(work.code, message, inline_flag))
      ELSE work

\* Lines 143-152: the size sub-transform.
SizeStep(work, message) ==
    IF message \cap {"size", "bigger", "smaller", "width", "height"} # {}
      THEN TakeSubResult(work, ApplySizeChanges(work.code, message))
      ELSE work

\* Lines 154-162: the speed sub-transform.
SpeedStep(work, message) ==
    IF message \cap {"speed", "faster", "slower", "velocity"} # {}
      THEN TakeSubResult(work, ApplySpeedChanges(work.code, message))
      ELSE work

\* Lines 164-177: the candidate with the verdict v of validate_game_code on it.
\* escalate = TRUE when the candidate is invalid or validation raised: the engine then
\* goes on to _apply_ai_modification.
TargetedResult(original_code, work, v) ==
    [ escalate |-> v.raised \/ ~v.is_valid,
      outcome  |-> IF v.raised THEN "raised" ELSE IF v.is_valid THEN "valid" ELSE "invalid",
      result   |-> [ modified_code         |-> work.code,
                     code_changed          |-> work.code # original_code,
                     modifications_applied |-> work.mods,
                     ai_response           |-> GenerateModificationResponse(work.mods),
                     strategy_used         |-> "targeted_change",
                     validation_issues     |-> <<>> ] ]

\* Line 165: validator.validate_game_code(modified_code) on the patched code.
ValidatedCandidate(original_code, work) ==
    TargetedResult(original_code, work, ValidateGameCode(work.code))

\* The synchronous part of _apply_targeted_modification (lines 131-182): the three
\* sub-transforms in order, then validation of the candidate.
ApplyTargetedModification(original_code, message, inline_flag) ==
    ValidatedCandidate(original_code,
        SpeedStep(SizeStep(ColorStep([code |-> original_code, mods |-> <<>>],
                                     message, inline_flag),
                           message),
                  message))

\* Variant: the fallback result lacks the key "code_changed".
FallbackModification_NoFlag(code) ==
    [ modified_code         |-> code,
      modifications_applied |-> <<>>,
      ai_response           |-> "I couldn't apply the requested modification. Please try rephrasing your request.",
      strategy_used         |-> "fallback",
      error                 |-> "Modification could not be applied" ]

\* Variant: the fallback result claims that the code changed.
FallbackModification_Changed(code) ==
    [ modified_code         |-> code,
      code_changed          |-> TRUE,
      modifications_applied |-> <<>>,
      ai_response           |-> "I couldn't apply the requested modification. Please try rephrasing your request.",
      strategy_used         |-> "fallback",
      error                 |-> "Modification could not be applied" ]

\* ModificationEngine._apply_fallback_modification: the current code, unchanged.
FallbackModification(code) ==
    [ modified_code         |-> code,
      code_changed          |-> FALSE,
      modifications_applied |-> <<>>,
      ai_response           |-> "I couldn't apply the requested modification. Please try rephrasing your request.",
      strategy_used         |-> "fallback",
      error                 |-> "Modification could not be applied" ]

\* The result of _apply_ai_modification (lines 189-205) once modify_game has returned
\* or raised: the AI result dictionary, or the fallback result.
ApplyAiModification(ai_result, code) ==
    IF ai_result.raised THEN FallbackModification(code)
    ELSE [ modified_code         |-> ai_result.modified_code,
           code_changed          |-> ai_result.code_changed,
           modifications_applied |-> ai_result.modifications_applied,
           ai_response           |-> ai_result.ai_response,
           strategy_used         |-> "ai_modification",
           validation_issues     |-> ai_result.validation_issues ]

\* ---------------------------------------------------------------------------
\* The version chain (GameState) and the requests working on it
\* ---------------------------------------------------------------------------

VARIABLES
    origin,           \* where the GameState comes from: none, failed, generated, loaded
    code,             \* game_state.code
    current_version,  \* game_state.current_version
    versions,         \* game_state.versions, a sequence of GameVersion records
    req,              \* per coroutine: position in apply_modification / regenerate_game
    breaker_lock,     \* CircuitBreaker._lock of each AIService instance: holder or 0
    helper_call       \* one call of a helper function taken on its own: its arguments
                      \* and, once it has returned, its value

vars == <<origin, code, current_version, versions, req, breaker_lock, helper_call>>

\* No helper function is being looked at.
NoCall == [fn |-> "none", stage |-> "none"]

\* parent_version = None
NoParent == 0

NoResult == [strategy_used |-> "none"]

IdleReq ==
    [ pc           |-> "idle",     \* idle, wait (in the AI service, before the breaker),
                                   \* call (API call under the breaker lock), done
      kind         |-> "none",     \* modify or regenerate
      message      |-> NoMessage,
      strategy     |-> "none",     \* modification_analysis["strategy"]
      targeted     |-> "none",     \* outcome of the targeted attempt: valid, invalid, raised
      current_code |-> NoCode,     \* the code handed to the AI service
      ai_calls     |-> 0,          \* invocations of ai_service.modify_game in this request
      ai           |-> "none",     \* how modify_game ended: returned, raised or cached
      candidate    |-> NoCode,     \* the artifact extracted from the AI answer
      raised       |-> FALSE,      \* ModificationError raised to the caller
      result       |-> NoResult ]

\* GameVersion of generate_game (lines 70-78)
InitialVersion(game_code) ==
    [ version               |-> 1,
      parent_version        |-> NoParent,
      is_current            |-> TRUE,
      code_size             |-> CodeSize(game_code),
      modifications_applied |-> <<"initial_generation">>,
      modification_summary  |-> "Initial game creation" ]

\* Variant: the new record takes the number of the current one.
CreateNewVersion_SameNumber(cur_version, modification_result, modification_summary) ==
    [ version               |-> cur_version,
      parent_version        |-> cur_version,
      is_current            |-> TRUE,
      code_size             |-> CodeSize(modification_result.modified_code),
      modifications_applied |-> modification_result.modifications_applied,
      modification_summary  |-> modification_summary ]

\* Variant: the new record names the record before the current one as its parent.
CreateNewVersion_WrongParent(cur_version, modification_result, modification_summary) ==
    [ version               |-> cur_version + 1,
      parent_version        |-> cur_version - 1,
      is_current            |-> TRUE,
      code_size             |-> CodeSize(modification_result.modified_code),
      modifications_applied |-> modification_result.modifications_applied,
      modification_summary  |-> modification_summary ]

\* ModificationEngine._create_new_version
CreateNewVersion(cur_version, modification_result, modification_summary) ==
    [ version               |-> cur_version + 1,
      parent_version        |-> cur_version,
      is_current            |-> TRUE,
      code_size             |-> CodeSize(modification_result.modified_code),
      modifications_applied |-> modification_result.modifications_applied,
      modification_summary  |-> modification_summary ]

\* Variant: the regenerated record keeps no size.
RegeneratedVersion_NoSize(cur_version, game_code) ==
    [ version               |-> cur_version + 1,
      parent_version        |-> cur_version,
      is_current            |-> TRUE,
      code_size             |-> 0,
      modifications_applied |-> <<"regeneration">>,
      modification_summary  |-> "Game regeneration" ]

\* Variant: the regenerated record names itself as its parent.
RegeneratedVersion_SelfParent(cur_version, game_code) ==
    [ version               |-> cur_version + 1,
      parent_version        |-> cur_version + 1,
      is_current            |-> TRUE,
      code_size             |-> CodeSize(game_code),
      modifications_applied |-> <<"regeneration">>,
      modification_summary  |-> "Game regeneration" ]

\* GameVersion of regenerate_game (lines 189-198)
RegeneratedVersion(cur_version, game_code) ==
    [ version               |-> cur_version + 1,
      parent_version        |-> cur_version,
      is_current            |-> TRUE,
      code_size             |-> CodeSize(game_code),
      modifications_applied |-> <<"regeneration">>,
      modification_summary  |-> "Game regeneration" ]

\* Variant: the append without the loop that clears the older marks.
AppendVersion_KeepsMarks(vs, new_version) == Append(vs, new_version)

\* Variant: the version list is replaced by the new record instead of extended.
AppendVersion_DropsHistory(vs, new_version) == <<new_version>>

\* versions.append(new_version), then the loop that clears is_current on every record
\* whose number differs from the new one (apply_modification lines 94-100,
\* regenerate_game lines 203-210).
AppendVersion(vs, new_version) ==
    LET appended == Append(vs, new_version)
    IN  [i \in 1..Len(appended) |->
            IF appended[i].version # new_version.version
              THEN [appended[i] EXCEPT !.is_current = FALSE]
              ELSE appended[i]]

\* GameState values a caller may hand in after reading them back from storage: two
\* records numbered 1 and 2, neither or both of them marked is_current.
LoadableChains ==
    { [ code            |-> <<"DOCTYPE", "BODY", "DQ", "#0066cc", "DQ">>,
        current_version |-> 2,
        versions        |->
            << [InitialVersion(<<"DOCTYPE", "BODY", "DQ", "#0066cc", "DQ">>) EXCEPT !.is_current = c],
               [RegeneratedVersion(1, <<"DOCTYPE", "BODY", "DQ", "#0066cc", "DQ">>)
                    EXCEPT !.is_current = c] >> ]
        : c \in BOOLEAN }

\* Requests inside the AI service.
InFlight == {p \in Requests : req[p].pc \in {"wait", "call"}}

\* A request may start when the chain has room for its version and for those of the
\* requests already under way.
HasRoom == Len(versions) + Cardinality(InFlight) < MaxVersions

\* No GameState yet, no request under way.
NoGame ==
    /\ origin = "none"
    /\ code = NoCode
    /\ current_version = 0
    /\ versions = <<>>
    /\ req = [p \in Requests |-> IdleReq]
    /\ breaker_lock = [k \in {"modify", "regenerate"} |-> 0]

Init ==
    /\ NoGame
    /\ helper_call = NoCall

\* GameGenerator.generate_game: creates the chain [version 1], or fails without one.
GenerateGame(out) ==
    /\ origin \in {"none", "failed"}
    /\ LET ai_result == AiGenerateGame(out)
       IN  IF ai_result.raised
             THEN /\ origin' = "failed"
                  /\ UNCHANGED <<code, current_version, versions>>
             ELSE /\ origin' = "generated"
                  /\ code' = ai_result.game_code
                  /\ current_version' = 1
                  /\ versions' = <<InitialVersion(ai_result.game_code)>>
    /\ UNCHANGED <<req, breaker_lock, helper_call>>

\* A caller hands in a GameState read back from storage (the model class accepts any
\* list of versions).
LoadChain(c) ==
    /\ origin = "none"
    /\ origin' = "loaded"
    /\ code' = c.code
    /\ current_version' = c.current_version
    /\ versions' = c.versions
    /\ UNCHANGED <<req, breaker_lock, helper_call>>

\* apply_modification lines 86 and 118-120: an exception that reaches the handler of
\* apply_modification itself is raised to the caller as ModificationError. The
\* statements after the strategy call raise only when the result dictionary lacks the
\* key "code_changed" (KeyError at line 86).
RaisesModificationError(result) == "code_changed" \notin DOMAIN result

\* apply_modification lines 109-114: the keys of the dictionary handed to the caller,
\* those of the strategy's result and three more.
ReturnedKeys(result) ==
    DOMAIN result \cup {"modification_time", "game_state", "modification_analysis"}

\* The fields of DiffSummary, the value DiffEngine.analyze_code_diff returns.
DiffSummaryFields ==
    { "total_changes", "additions", "deletions", "modifications", "files_changed",
      "change_percentage", "significant_changes", "technical_changes" }

\* Variant: code and current_version are written but the record is not appended.
CommitModification_HalfApplied(result, message) ==
    IF ~RaisesModificationError(result) /\ result.code_changed
      THEN LET new_version == CreateNewVersion(current_version, result, message)
           IN  /\ code' = result.modified_code
               /\ current_version' = new_version.version
               /\ versions' = versions
      ELSE UNCHANGED <<code, current_version, versions>>

\* apply_modification lines 86-100: when the result says the code changed, create the
\* new version, set code and current_version, append, clear the older is_current marks.
\* No await lies between these statements (_create_new_version never suspends).
CommitModification(result, message) ==
    IF ~RaisesModificationError(result) /\ result.code_changed
      THEN LET new_version == CreateNewVersion(current_version, result, message)
           IN  /\ code' = result.modified_code
               /\ current_version' = new_version.version
               /\ versions' = AppendVersion(versions, new_version)
      ELSE UNCHANGED <<code, current_version, versions>>

\* apply_modification up to its first suspension point: strategy selection, and for the
\* targeted strategy the patch with its validation. A valid targeted candidate finishes
\* the request here (result and commit); otherwise the request enters
\* ai_service.modify_game with the current code and suspends.
StartModification(p, message, inline_flag) ==
    /\ origin \in {"generated", "loaded"}
    /\ req[p].pc = "idle"
    /\ HasRoom
    /\ LET analysis == AnalyzeModificationRequest(message)
           targeted == ApplyTargetedModification(code, message, inline_flag)
       IN  IF analysis.strategy = "targeted_change" /\ ~targeted.escalate
             THEN /\ req' = [req EXCEPT ![p] =
                        [IdleReq EXCEPT !.pc = "done", !.kind = "modify",
                                        !.message = message,
                                        !.strategy = analysis.strategy,
                                        !.targeted = targeted.outcome,
                                        !.raised = RaisesModificationError(targeted.result),
                                        !.result = targeted.result]]
                  /\ CommitModification(targeted.result, message)
             ELSE /\ req' = [req EXCEPT ![p] =
                        [IdleReq EXCEPT !.pc = "wait", !.kind = "modify",
                                        !.message = message,
                                        !.strategy = analysis.strategy,
                                        !.targeted =
                                            IF analysis.strategy = "targeted_change"
                                              THEN targeted.outcome ELSE "none",
                                        !.current_code = code,
                                        !.ai_calls = 1]]
                  /\ UNCHANGED <<code, current_version, versions>>
    /\ UNCHANGED <<origin, helper_call, breaker_lock>>

\* regenerate_game up to its suspension in ai_service.generate_game.
StartRegeneration(p) ==
    /\ origin \in {"generated", "loaded"}
    /\ req[p].pc = "idle"
    /\ HasRoom
    /\ req' = [req EXCEPT ![p] = [IdleReq EXCEPT !.pc = "wait", !.kind = "regenerate"]]
    /\ UNCHANGED <<origin, helper_call, code, current_version, versions, breaker_lock>>

\* CircuitBreaker.call: async with self._lock, held for the whole API call.
AcquireBreaker(p) ==
    /\ req[p].pc = "wait"
    /\ breaker_lock[req[p].kind] = 0
    /\ breaker_lock' = [breaker_lock EXCEPT ![req[p].kind] = p]
    /\ req' = [req EXCEPT ![p].pc = "call"]
    /\ UNCHANGED <<origin, helper_call, code, current_version, versions>>

\* The stage of the AI service at which an outcome arises: a rejected request before
\* the breaker, every other outcome under or after it.
OutcomeAt(pc, out) ==
    \/ pc = "wait" /\ out.kind = "invalid_request"
    \/ pc = "call" /\ out.kind # "invalid_request"

ReleaseBreaker(p) ==
    IF req[p].pc = "call"
      THEN breaker_lock' = [breaker_lock EXCEPT ![req[p].kind] = 0]
      ELSE UNCHANGED breaker_lock

\* Variant: a failed AI attempt is caught once more and the AI service is called again.
ModifyGameFinishes_Retries(p, out) ==
    /\ req[p].kind = "modify"
    /\ OutcomeAt(req[p].pc, out)
    /\ LET ai_result == ModifyGame(req[p].current_code, out)
           result    == ApplyAiModification(ai_result, code)
       IN  IF ai_result.raised /\ req[p].ai_calls < 2
             THEN /\ req' = [req EXCEPT ![p].pc = "wait",
                                        ![p].current_code = code,
                                        ![p].ai_calls = req[p].ai_calls + 1]
                  /\ UNCHANGED <<code, current_version, versions>>
             ELSE /\ req' = [req EXCEPT ![p].pc = "done",
                                        ![p].ai = IF ai_result.raised THEN "raised" ELSE "returned",
                                        ![p].candidate = out.content,
                                        ![p].raised = RaisesModificationError(result),
                                        ![p].result = result]
                  /\ CommitModification(result, req[p].message)
    /\ ReleaseBreaker(p)
    /\ UNCHANGED <<origin, helper_call>>

\* ai_service.modify_game returns or raises; _apply_ai_modification builds the result
\* (fallback on a raise) and apply_modification commits it, all without suspending.
ModifyGameFinishes(p, out) ==
    /\ req[p].kind = "modify"
    /\ OutcomeAt(req[p].pc, out)
    /\ LET ai_result == ModifyGame(req[p].current_code, out)
           result    == ApplyAiModification(ai_result, code)
       IN  /\ req' = [req EXCEPT ![p].pc = "done",
                                 ![p].ai = IF ai_result.raised THEN "raised" ELSE "returned",
                                 ![p].candidate = out.content,
                                 ![p].raised = RaisesModificationError(result),
                                 ![p].result = result]
           /\ CommitModification(result, req[p].message)
    /\ ReleaseBreaker(p)
    /\ UNCHANGED <<origin, helper_call>>

\* modify_game lines 566-574: the cache lookup finds an entry and modify_game returns
\* it as it is, before the semaphore, the request check and the API call;
\* _apply_ai_modification and apply_modification go on as with any returned result.
ModifyGameCacheHit(p, a) ==
    /\ req[p].kind = "modify"
    /\ req[p].pc = "wait"
    /\ LET cached_result == CachedResponse(req[p].current_code, a)
           result        == ApplyAiModification(cached_result, code)
       IN  /\ req' = [req EXCEPT ![p].pc = "done",
                                 ![p].ai = "cached",
                                 ![p].candidate = cached_result.modified_code,
                                 ![p].raised = RaisesModificationError(result),
                                 ![p].result = result]
           /\ CommitModification(result, req[p].message)
    /\ UNCHANGED <<origin, helper_call, breaker_lock>>

\* ai_service.generate_game returns or raises inside regenerate_game; on success the
\* new version is appended (lines 189-210), on a raise the chain is left alone.
RegenerateFinishes(p, out) ==
    /\ req[p].kind = "regenerate"
    /\ OutcomeAt(req[p].pc, out)
    /\ LET ai_result == AiGenerateGame(out)
       IN  IF ai_result.raised
             THEN /\ req' = [req EXCEPT ![p].pc = "done", ![p].ai = "raised",
                                        ![p].result = [strategy_used |-> "regeneration",
                                                       success |-> FALSE]]
                  /\ UNCHANGED <<code, current_version, versions>>
             ELSE LET new_version == RegeneratedVersion(current_version, ai_result.game_code)
                  IN  /\ req' = [req EXCEPT ![p].pc = "done", ![p].ai = "returned",
                                            ![p].candidate = out.content,
                                            ![p].result = [strategy_used |-> "regeneration",
                                                           success |-> TRUE]]
                      /\ code' = ai_result.game_code
                      /\ current_version' = new_version.version
                      /\ versions' = AppendVersion(versions, new_version)
    /\ ReleaseBreaker(p)
    /\ UNCHANGED <<origin, helper_call>>

\* ModificationEngine.revert_to_version: looks the target up, then reports that revert
\* is not implemented, or raises ModificationError when the target does not exist.
\* It writes nothing to the GameState.
RevertToVersion(p, target_version) ==
    /\ origin \in {"generated", "loaded"}
    /\ req[p].pc = "idle"
    /\ LET found == \E i \in 1..Len(versions) : versions[i].version = target_version
       IN  req' = [req EXCEPT ![p] =
                [IdleReq EXCEPT !.pc = "done", !.kind = "revert",
                                !.result = [strategy_used |-> "revert",
                                            success |-> FALSE,
                                            raised  |-> ~found]]]
    /\ UNCHANGED <<origin, helper_call, code, current_version, versions, breaker_lock>>

\* The caller takes the result; the coroutine is free for the next request.
Return(p) ==
    /\ req[p].pc = "done"
    /\ req' = [req EXCEPT ![p] = IdleReq]
    /\ UNCHANGED <<origin, helper_call, code, current_version, versions, breaker_lock>>

Next ==
    \/ \E out \in AiOutcomes : GenerateGame(out)
    \/ \E c \in LoadableChains : LoadChain(c)
    \/ \E p \in Requests, m \in Messages, f \in InlineFlagOutcomes : StartModification(p, m, f)
    \/ \E p \in Requests : StartRegeneration(p)
    \/ \E p \in Requests : AcquireBreaker(p)
    \/ \E p \in Requests, out \in AiOutcomes : ModifyGameFinishes(p, out)
    \/ \E p \in Requests, a \in CachedArtifacts : ModifyGameCacheHit(p, a)
    \/ \E p \in Requests, out \in AiOutcomes : RegenerateFinishes(p, out)
    \/ \E p \in Requests, v \in 1..MaxVersions : RevertToVersion(p, v)
    \/ \E p \in Requests : Return(p)

Spec == Init /\ [][Next]_vars

\* ---------------------------------------------------------------------------
\* The strategy selector on its own
\* ---------------------------------------------------------------------------

\* Keywords a request text is taken to contain: four of the simple family, four of the
\* complex family, one of neither.
SelectorWords == {"color", "red", "blue", "size", "add", "enemy", "new", "level", "player"}

SelectorInit ==
    /\ NoGame
    /\ helper_call \in { [fn |-> "analyze", stage |-> "args", message |-> m]
                           : m \in SUBSET SelectorWords }

\* One call of _analyze_modification_request(message, game_state).
AnalyzeRequest ==
    /\ helper_call.fn = "analyze"
    /\ helper_call.stage = "args"
    /\ helper_call' = [ fn      |-> "analyze",
                        stage   |-> "value",
                        message |-> helper_call.message,
                        value   |-> AnalyzeModificationRequest(helper_call.message) ]
    /\ UNCHANGED <<origin, code, current_version, versions, req, breaker_lock>>

SelectorNext == AnalyzeRequest

SelectorSpec == SelectorInit /\ [][SelectorNext]_vars

\* ---------------------------------------------------------------------------
\* The targeted patch on its own
\* ---------------------------------------------------------------------------

\* Longest run of script text after the page frame in an artifact handed to the patch.
PatchLen == 5

\* What the script text is made of.
PatchLexemes == {"SQ", "DQ", "#", "#0066cc"}

\* Artifacts handed to the patch: a page frame the validator accepts, then script text.
PatchArtifacts ==
    { <<"DOCTYPE", "BODY">> \o tail
        : tail \in UNION { [1..n -> PatchLexemes] : n \in 0..PatchLen } }

\* Request texts handed to the patch, as the keywords found in message.lower():
\* "change the player color to red", "make the player red", "change the color",
\* "more size and speed".
PatchMessages == { {"color", "red"}, {"red"}, {"color"}, {"size", "speed"} }

PatchInit ==
    /\ NoGame
    /\ helper_call \in { [ fn |-> "patch", stage |-> "args", code |-> a, message |-> m,
                            inline_flag |-> f ]
                           : a \in PatchArtifacts, m \in PatchMessages,
                             f \in InlineFlagOutcomes }

\* The request is analysed and the targeted patch is applied to the artifact;
\* color_result is what _apply_color_changes reports on the way.
ApplyPatch ==
    /\ helper_call.fn = "patch"
    /\ helper_call.stage = "args"
    /\ helper_call' =
          [ fn           |-> "patch",
            stage        |-> "once",
            code         |-> helper_call.code,
            message      |-> helper_call.message,
            inline_flag  |-> helper_call.inline_flag,
            analysis     |-> AnalyzeModificationRequest(helper_call.message),
            color_result |-> ApplyColorChanges(helper_call.code, helper_call.message,
                                               helper_call.inline_flag),
            first        |-> ApplyTargetedModification(helper_call.code, helper_call.message,
                                                       helper_call.inline_flag).result ]
    /\ UNCHANGED <<origin, code, current_version, versions, req, breaker_lock>>

\* The same request is applied to the patched artifact once more.
ApplyPatchAgain ==
    /\ helper_call.fn = "patch"
    /\ helper_call.stage = "once"
    /\ helper_call' =
          [ fn           |-> "patch",
            stage        |-> "twice",
            code         |-> helper_call.code,
            message      |-> helper_call.message,
            inline_flag  |-> helper_call.inline_flag,
            analysis     |-> helper_call.analysis,
            color_result |-> helper_call.color_result,
            first        |-> helper_call.first,
            second       |-> ApplyTargetedModification(helper_call.first.modified_code,
                                                       helper_call.message,
                                                       helper_call.inline_flag).result ]
    /\ UNCHANGED <<origin, code, current_version, versions, req, breaker_lock>>

PatchNext == ApplyPatch \/ ApplyPatchAgain

PatchSpec == PatchInit /\ [][PatchNext]_vars

\* ---------------------------------------------------------------------------
\* CodeValidator (services/code_validator.py), checked on its own
\* ---------------------------------------------------------------------------

\* What an artifact given to CodeValidator can hold, in document order:
\*   DOCTYPE    the <!DOCTYPE html> declaration
\*   BODY       <html lang=..>, </html>, <head>, <body> and a script
\*   EVAL       a call of eval(
\*   INNERHTML  an assignment el.innerHTML = ..
\*   INNERHTML_ADD  a compound assignment el.innerHTML += ..
\*   LINK       src="https://.." to an allowed domain
\*   FOREIGN    src="https://.." to a domain that is not allowed
\*   BADURL     src="http://[x", which urlparse rejects with ValueError
\*   SURROGATE  a lone surrogate character, which str.encode("utf-8") rejects
\*   BRACES     a script whose braces are not balanced
ValidatorFragments ==
    << "DOCTYPE", "BODY", "EVAL", "INNERHTML", "INNERHTML_ADD", "LINK", "FOREIGN",
       "BADURL", "SURROGATE", "BRACES" >>

RECURSIVE PickFragments(_, _)
\* The fragments of seq that are in the set chosen, in the order of seq.
PickFragments(seq, chosen) ==
    IF seq = <<>> THEN <<>>
    ELSE (IF Head(seq) \in chosen THEN <<Head(seq)>> ELSE <<>>)
         \o PickFragments(Tail(seq), chosen)

ValidatorArtifacts ==
    { PickFragments(ValidatorFragments, chosen)
        : chosen \in SUBSET { ValidatorFragments[i] : i \in 1..Len(ValidatorFragments) } }

\* ValidationLevel of the validator instance.
ValidationLevels == {"strict", "moderate", "permissive", "disabled"}

\* Wall-clock seconds between the start and the end of one validation.
ValidationTimes == {1, 2}

\* One message if the condition holds.
MessageIf(cond, text) == IF cond THEN <<text>> ELSE <<>>

\* CodeValidator._validate_html_structure: the five structure errors and the meta
\* warnings (no artifact of ValidatorArtifacts holds meta tags or a title).
ValidateHtmlStructure(game_code) ==
    [ errors   |-> MessageIf(~Contains(game_code, "DOCTYPE"), "Missing DOCTYPE declaration")
                   \o (IF ~Contains(game_code, "BODY")
                         THEN << "Missing <html> tag", "Missing closing </html> tag",
                                 "Missing <head> section", "Missing <body> section" >>
                         ELSE <<>>),
      warnings |-> << "Missing charset meta tag", "Missing viewport meta tag",
                      "Missing or empty title tag" >> ]

\* CodeValidator._validate_security: dangerous patterns first, then the links in
\* document order; urlparse raising on a link ends the pass with an error and keeps
\* the issues found before it.
ValidateSecurity(game_code) ==
    [ errors          |-> MessageIf(Contains(game_code, "BADURL"), "Security validation error"),
      security_issues |->
          MessageIf(Contains(game_code, "EVAL"), "Dangerous pattern detected: eval")
          \o MessageIf(Contains(game_code, "INNERHTML"), "Dangerous pattern detected: innerHTML")
          \o MessageIf(\E i \in 1..Len(game_code) :
                          /\ game_code[i] = "FOREIGN"
                          /\ \A j \in 1..(i - 1) : game_code[j] # "BADURL",
                       "Unauthorized external domain") ]

\* CodeValidator._validate_content: no artifact of ValidatorArtifacts holds a flagged
\* word or more than five external scripts.
ValidateContent(game_code) == [ warnings |-> <<>> ]

\* CodeValidator._analyze_code_quality: code.encode raising ends the pass with a
\* warning and the metric analysis_error.
AnalyzeCodeQuality(game_code) ==
    IF Contains(game_code, "SURROGATE")
      THEN [ warnings |-> << "Code quality analysis error" >>,
             metrics  |-> [ analysis_error |-> "encode" ] ]
      ELSE [ warnings |-> <<>>,
             metrics  |-> [ total_elements |-> Len(game_code) ] ]

\* CodeValidator._validate_performance.
ValidatePerformance(game_code) == [ warnings |-> <<>> ]

\* CodeValidator._validate_accessibility: no artifact of ValidatorArtifacts holds a
\* heading.
ValidateAccessibility(game_code) == [ warnings |-> << "No heading elements found" >> ]

\* CodeValidator._apply_strict_validation.
ApplyStrictValidation(game_code) ==
    [ errors |->
        MessageIf(Contains(game_code, "INNERHTML"), "innerHTML usage not allowed in strict mode")
        \o MessageIf(\E t \in {"LINK", "FOREIGN", "BADURL"} : Contains(game_code, t),
                     "External resources not allowed in strict mode")
        \o MessageIf(Contains(game_code, "BRACES"), "JavaScript syntax validation failed") ]

\* Variant: the errors of the strict pass are listed but leave is_valid as it was.
StrictValidity_KeepsValid(is_valid, strict_errors) == is_valid

\* validate_game_code lines 119-123: errors of the strict pass clear is_valid.
StrictValidity(is_valid, strict_errors) == is_valid /\ strict_errors = <<>>

\* CodeValidator.validate_game_code (lines 79-148): the passes in order, the overall
\* validity, the strict pass, the metrics with the validation time.
CodeValidatorVerdict(game_code, validation_level, validation_time) ==
    LET structure_result == ValidateHtmlStructure(game_code)
        security_result  == ValidateSecurity(game_code)
        quality_result   == AnalyzeCodeQuality(game_code)
        errors           == structure_result.errors \o security_result.errors
        security_issues  == security_result.security_issues
        warnings         == structure_result.warnings
                            \o ValidateContent(game_code).warnings
                            \o quality_result.warnings
                            \o ValidatePerformance(game_code).warnings
                            \o (IF validation_level \in {"strict", "moderate"}
                                  THEN ValidateAccessibility(game_code).warnings
                                  ELSE <<>>)
        strict_errors    == IF validation_level = "strict"
                              THEN ApplyStrictValidation(game_code).errors
                              ELSE <<>>
    IN  [ raised          |-> FALSE,
          is_valid        |-> StrictValidity(errors = <<>> /\ security_issues = <<>>,
                                             strict_errors),
          errors          |-> errors \o strict_errors,
          warnings        |-> warnings,
          security_issues |-> security_issues,
          code_metrics    |-> quality_result.metrics
                              @@ [ validation_time  |-> validation_time,
                                   validation_level |-> validation_level ] ]

\* The validation passes that cannot process the artifact.
FailingPasses(game_code) ==
    (IF Contains(game_code, "BADURL") THEN {"security"} ELSE {})
    \cup (IF Contains(game_code, "SURROGATE") THEN {"quality"} ELSE {})

ValidatorInit ==
    /\ NoGame
    /\ helper_call \in { [ fn |-> "validate", stage |-> "args", code |-> a,
                            validation_level |-> l ]
                           : a \in ValidatorArtifacts, l \in ValidationLevels }

\* One call of CodeValidator.validate_game_code that takes validation_time seconds;
\* gate is what ComprehensiveValidator.validate_game_code answers on the same artifact.
ValidateGame(validation_time) ==
    /\ helper_call.fn = "validate"
    /\ helper_call.stage = "args"
    /\ helper_call' =
          [ fn               |-> "validate",
            stage            |-> "value",
            code             |-> helper_call.code,
            validation_level |-> helper_call.validation_level,
            value            |-> CodeValidatorVerdict(helper_call.code,
                                                      helper_call.validation_level,
                                                      validation_time),
            gate             |-> ValidateGameCode(helper_call.code) ]
    /\ UNCHANGED <<origin, code, current_version, versions, req, breaker_lock>>

\* A second call of validate_game_code on the same artifact by the same validator.
ValidateGameAgain(validation_time) ==
    /\ helper_call.fn = "validate"
    /\ helper_call.stage = "value"
    /\ helper_call' =
          [ fn               |-> "validate",
            stage            |-> "twice",
            code             |-> helper_call.code,
            validation_level |-> helper_call.validation_level,
            value            |-> helper_call.value,
            gate             |-> helper_call.gate,
            second           |-> CodeValidatorVerdict(helper_call.code,
                                                      helper_call.validation_level,
                                                      validation_time) ]
    /\ UNCHANGED <<origin, code, current_version, versions, req, breaker_lock>>

ValidatorNext ==
    \/ \E validation_time \in ValidationTimes : ValidateGame(validation_time)
    \/ \E validation_time \in ValidationTimes : ValidateGameAgain(validation_time)

ValidatorSpec == ValidatorInit /\ [][ValidatorNext]_vars

\* ---------------------------------------------------------------------------
\* DiffEngine and SemanticDiffAnalyzer (utils/diff_engine.py), checked on their own
\* ---------------------------------------------------------------------------

\* Most lines of an artifact given to analyze_code_diff.
MaxLines == 100

\* Most digits of the numeric literal that changes.
MaxDigits == 4

\* Characters of one line, the digits of the literal not counted.
LineLength == 10

\* Pairs of artifacts that differ only in the numeric literal of one line: both have
\* total_lines lines, the literal is on line changed_line and has old_digits digits in
\* the old artifact and new_digits in the new one (a different number in either case).
LiteralChanges ==
    [ total_lines : 1..MaxLines, changed_line : 1..MaxLines,
      old_digits : 1..MaxDigits, new_digits : {1, MaxDigits} ]

\* What calculate_change_impact measures of an artifact: len(code) and the numbers of
\* matches of function\s+\w+ and of (?:var|let|const)\s+\w+. The changed line is a
\* variable declaration; the other lines declare nothing.
Measures(total_lines, digits) ==
    [ size      |-> total_lines * LineLength + (total_lines - 1) + digits,
      functions |-> 0,
      vars      |-> 1 ]

Min(a, b) == IF a <= b THEN a ELSE b

Max(a, b) == IF a >= b THEN a ELSE b

Abs(n) == IF n >= 0 THEN n ELSE 0 - n

\* n copies of the line.
Copies(n, line) == [k \in 1..n |-> line]

\* difflib.unified_diff(old_lines, new_lines, fromfile="original", tofile="modified",
\* lineterm="", n=3) for one changed line: the two file headers, the hunk header, up
\* to three context lines, the removed line, the added line, up to three context
\* lines. sign is the first character of the line.
UnifiedDiff(total_lines, changed_line) ==
    << [sign |-> "-", rest |-> "-- original"],
       [sign |-> "+", rest |-> "++ modified"],
       [sign |-> "@", rest |-> "@ hunk @@"] >>
    \o Copies(Min(3, changed_line - 1), [sign |-> " ", rest |-> "context"])
    \o << [sign |-> "-", rest |-> "old line"], [sign |-> "+", rest |-> "new line"] >>
    \o Copies(Min(3, total_lines - changed_line), [sign |-> " ", rest |-> "context"])

\* The lines of the diff that start with the sign.
StartingWith(diff, sign) == Cardinality({k \in 1..Len(diff) : diff[k].sign = sign})

\* round(100 * n / d, 2) in hundredths of a percent.
PercentHundredths(n, d) == (2 * 10000 * n + d) \div (2 * d)

\* DiffEngine.analyze_code_diff on two artifacts with the same number of lines of
\* which one differs (lines 79-111); change_percentage in hundredths of a percent.
AnalyzeCodeDiff(total_lines, changed_line) ==
    LET diff      == UnifiedDiff(total_lines, changed_line)
        additions == StartingWith(diff, "+")
        deletions == StartingWith(diff, "-")
    IN  [ total_changes     |-> additions + deletions,
          additions         |-> additions,
          deletions         |-> deletions,
          modifications     |-> Min(additions, deletions),
          files_changed     |-> 1,
          change_percentage |-> PercentHundredths(additions + deletions,
                                                  Max(total_lines, 1)) ]

\* Variant of the classification with thresholds that include their bound.
ImpactLevel_Inclusive(old_size, size_delta, function_change, var_change) ==
    IF 2 * size_delta >= Max(old_size, 1) \/ function_change >= 3 \/ var_change >= 5
      THEN "high"
    ELSE IF 5 * size_delta >= Max(old_size, 1) \/ function_change >= 1 \/ var_change >= 2
      THEN "medium"
    ELSE "low"

\* calculate_change_impact lines 623-629, with size_change = size_delta / max(old_size, 1)
\* compared as a fraction: size_change > 0.5 and size_change > 0.2.
ImpactLevel(old_size, size_delta, function_change, var_change) ==
    IF 2 * size_delta > Max(old_size, 1) \/ function_change > 3 \/ var_change > 5
      THEN "high"
    ELSE IF 5 * size_delta > Max(old_size, 1) \/ function_change > 1 \/ var_change > 2
      THEN "medium"
    ELSE "low"

\* SemanticDiffAnalyzer.calculate_change_impact on the measures of two artifacts.
CalculateChangeImpact(old, new) ==
    LET function_change == Abs(new.functions - old.functions)
        var_change      == Abs(new.vars - old.vars)
    IN  [ impact_level      |-> ImpactLevel(old.size, Abs(new.size - old.size),
                                            function_change, var_change),
          functions_changed |-> function_change,
          variables_changed |-> var_change ]

DiffInit ==
    /\ NoGame
    /\ helper_call \in { [ fn |-> "diff", stage |-> "args", change |-> c ]
                           : c \in { d \in LiteralChanges :
                                        d.changed_line <= d.total_lines } }

\* analyze_code_diff and calculate_change_impact are applied to the pair.
AnalyzeLiteralChange ==
    /\ helper_call.fn = "diff"
    /\ helper_call.stage = "args"
    /\ LET c == helper_call.change
       IN  helper_call' =
             [ fn      |-> "diff",
               stage   |-> "value",
               change  |-> c,
               summary |-> AnalyzeCodeDiff(c.total_lines, c.changed_line),
               impact  |-> CalculateChangeImpact(Measures(c.total_lines, c.old_digits),
                                                 Measures(c.total_lines, c.new_digits)) ]
    /\ UNCHANGED <<origin, code, current_version, versions, req, breaker_lock>>

DiffNext == AnalyzeLiteralChange

DiffSpec == DiffInit /\ [][DiffNext]_vars

\* Most function declarations and most variable declarations of an artifact given to
\* calculate_change_impact.
MaxFunctions == 4

MaxVars == 6

\* Characters of an artifact besides its declarations and their separators.
Paddings == {0, 10, 12, 13, 15, 16}

\* Artifacts by what calculate_change_impact measures: a match of function\s+\w+ has
\* ten characters or more, a match of (?:var|let|const)\s+\w+ five or more, and each
\* declaration is followed by a separator.
ImpactArtifacts ==
    { [ size      |-> 11 * f + 6 * v + pad,
        functions |-> f,
        vars      |-> v ]
        : f \in 0..MaxFunctions, v \in 0..MaxVars, pad \in Paddings }

ImpactInit ==
    /\ NoGame
    /\ helper_call \in { [ fn |-> "impact", stage |-> "args", old |-> o, new |-> n ]
                           : o \in ImpactArtifacts, n \in ImpactArtifacts }

\* calculate_change_impact(old_code, new_code).
CalculateImpact ==
    /\ helper_call.fn = "impact"
    /\ helper_call.stage = "args"
    /\ helper_call' =
          [ fn     |-> "impact",
            stage  |-> "value",
            old    |-> helper_call.old,
            new    |-> helper_call.new,
            impact |-> CalculateChangeImpact(helper_call.old, helper_call.new) ]
    /\ UNCHANGED <<origin, code, current_version, versions, req, breaker_lock>>

ImpactNext == CalculateImpact

ImpactSpec == ImpactInit /\ [][ImpactNext]_vars

\* ---------------------------------------------------------------------------
\* CircuitBreaker (services/ai_service.py), checked on its own
\* ---------------------------------------------------------------------------

\* CircuitBreaker.__init__: failure_threshold.
FailureThreshold == 3

\* recovery_timeout, in ticks of the clock.
RecoveryTimeout == 2

\* The clock stops here.
MaxTime == 9

\* Coroutines that call through the breaker.
Callers == {1, 2}

\* last_failure_time = None.
NoTime == 0 - 1

\* CircuitBreaker.__init__ (lines 356-362), with the clock, the holder of _lock, the
\* number of failures since the last success as an observer counts them, and what the
\* last step did.
NewBreaker ==
    [ fn                |-> "breaker",
      state             |-> "CLOSED",
      failure_count     |-> 0,
      last_failure_time |-> NoTime,
      now               |-> 0,
      holder            |-> 0,
      streak            |-> 0,
      event             |-> "none" ]

BreakerInit ==
    /\ NoGame
    /\ helper_call = NewBreaker

\* datetime.utcnow() advances.
Tick ==
    /\ helper_call.fn = "breaker"
    /\ helper_call.now < MaxTime
    /\ helper_call' = [helper_call EXCEPT !.now = @ + 1, !.event = "tick"]
    /\ UNCHANGED <<origin, code, current_version, versions, req, breaker_lock>>

\* call, lines 365-372: the caller takes the lock; an OPEN breaker whose timeout has
\* passed becomes HALF_OPEN, an OPEN breaker whose timeout has not passed raises and
\* gives the lock back; otherwise the wrapped function is invoked.
EnterCall(p) ==
    /\ helper_call.fn = "breaker"
    /\ helper_call.holder = 0
    /\ IF helper_call.state = "OPEN"
         THEN IF helper_call.now - helper_call.last_failure_time > RecoveryTimeout
                THEN helper_call' = [helper_call EXCEPT !.state = "HALF_OPEN",
                                                        !.holder = p,
                                                        !.event = "invoked"]
                ELSE helper_call' = [helper_call EXCEPT !.event = "refused"]
         ELSE helper_call' = [helper_call EXCEPT !.holder = p, !.event = "invoked"]
    /\ UNCHANGED <<origin, code, current_version, versions, req, breaker_lock>>

\* call lines 374-377 and _on_success: the wrapped function returned.
OnSuccess(p) ==
    /\ helper_call.fn = "breaker"
    /\ helper_call.holder = p
    /\ helper_call' = [helper_call EXCEPT !.failure_count = 0,
                                          !.state = "CLOSED",
                                          !.holder = 0,
                                          !.streak = 0,
                                          !.event = "success"]
    /\ UNCHANGED <<origin, code, current_version, versions, req, breaker_lock>>

\* Variant: the breaker opens when the count has passed the threshold.
StateAfterFailure_Late(state, failure_count) ==
    IF failure_count > FailureThreshold THEN "OPEN" ELSE state

\* _on_failure lines 392-393.
StateAfterFailure(state, failure_count) ==
    IF failure_count >= FailureThreshold THEN "OPEN" ELSE state

\* call lines 378-380 and _on_failure: the wrapped function raised an Exception.
OnFailure(p) ==
    /\ helper_call.fn = "breaker"
    /\ helper_call.holder = p
    /\ helper_call' =
          [helper_call EXCEPT !.failure_count = @ + 1,
                              !.last_failure_time = helper_call.now,
                              !.state = StateAfterFailure(helper_call.state,
                                                          helper_call.failure_count + 1),
                              !.holder = 0,
                              !.streak = @ + 1,
                              !.event = "failure"]
    /\ UNCHANGED <<origin, code, current_version, versions, req, breaker_lock>>

\* The task of the caller is cancelled inside the wrapped function: CancelledError is
\* no Exception, so neither _on_success nor _on_failure runs and the lock is given back.
OnCancelled(p) ==
    /\ helper_call.fn = "breaker"
    /\ helper_call.holder = p
    /\ helper_call' = [helper_call EXCEPT !.holder = 0, !.event = "cancelled"]
    /\ UNCHANGED <<origin, code, current_version, versions, req, breaker_lock>>

BreakerNext ==
    \/ Tick
    \/ \E p \in Callers : EnterCall(p)
    \/ \E p \in Callers : OnSuccess(p)
    \/ \E p \in Callers : OnFailure(p)
    \/ \E p \in Callers : OnCancelled(p)

BreakerSpec == BreakerInit /\ [][BreakerNext]_vars

\* Types of the state.
TypeOK ==
    /\ origin \in {"none", "failed", "generated", "loaded"}
    /\ current_version \in 0..MaxVersions
    /\ Len(versions) <= MaxVersions
    /\ \A p \in Requests : req[p].pc \in {"idle", "wait", "call", "done"}
    /\ \A k \in {"modify", "regenerate"} : breaker_lock[k] \in Requests \cup {0}

\* ---------------------------------------------------------------------------
\* Properties
\* ---------------------------------------------------------------------------

\* Indices of the records marked is_current.
CurrentMarks(vs) == {i \in 1..Len(vs) : vs[i].is_current}

\* Largest version number of a non-empty chain.
MaxVersionNumber(vs) ==
    CHOOSE n \in {vs[i].version : i \in 1..Len(vs)} :
        \A i \in 1..Len(vs) : vs[i].version <= n

\* The step is taken by coroutine p.
StepOf(p) == req'[p] # req[p]

\* The chain exists (generate_game succeeded or a GameState was handed in).
ChainExists == origin \in {"generated", "loaded"}

\* C1: in every state of a chain created by generate_game and then worked on by
\* apply_modification and regenerate_game, exactly one version is marked is_current
\* and it carries the highest version number.
C1_SingleCurrentIsHighest ==
    origin = "generated" =>
        /\ Cardinality(CurrentMarks(versions)) = 1
        /\ \A i \in CurrentMarks(versions) :
              versions[i].version = MaxVersionNumber(versions)

\* C1 witness: a generated chain that has grown by a targeted patch and by a regeneration.
C1_Witness ==
    /\ origin = "generated"
    /\ Len(versions) >= 3
    /\ \E i \in 1..Len(versions) : versions[i].modifications_applied = <<"Changed colors">>
    /\ \E i \in 1..Len(versions) : versions[i].modifications_applied = <<"regeneration">>

\* C2 (as claimed): a modification request whose AI candidate does not pass the validator ends in
\* the fallback result (current artifact returned, code_changed false, chain untouched),
\* and every artifact that apply_modification makes current passes the validator.
C2_InvalidCandidateFallsBack ==
    [][\A p \in Requests :
        /\ ( /\ req[p].kind = "modify"
             /\ req[p].pc \in {"wait", "call"}
             /\ req'[p].pc = "done"
             /\ req'[p].candidate # NoCode
             /\ ~IsValidArtifact(req'[p].candidate) )
           => /\ req'[p].result.strategy_used = "fallback"
              /\ req'[p].result.code_changed = FALSE
              /\ req'[p].result.modified_code = code
              /\ UNCHANGED <<code, current_version, versions>>
        /\ ( StepOf(p) /\ req'[p].kind = "modify" /\ code' # code )
           => IsValidArtifact(code')
      ]_vars

\* C3: when the AI call of a modification raises, the request ends with code_changed
\* false and a non-empty response text, and no step of the request up to and including
\* that end writes to the version list, current_version or the artifact.
C3_AiFailureLeavesChain ==
    [][\A p \in Requests :
        /\ ( StepOf(p) /\ req'[p].kind = "modify" /\ req'[p].pc \in {"wait", "call"} )
           => UNCHANGED <<code, current_version, versions>>
        /\ ( StepOf(p) /\ req'[p].kind = "modify" /\ req'[p].pc = "done"
                       /\ req'[p].ai = "raised" )
           => /\ req'[p].result.code_changed = FALSE
              /\ req'[p].result.ai_response # ""
              /\ UNCHANGED <<code, current_version, versions>>
      ]_vars

\* C3 witness: a finished modification whose AI call failed before any artifact came back.
C3_Witness ==
    \E p \in Requests :
        /\ req[p].kind = "modify"
        /\ req[p].pc = "done"
        /\ req[p].ai = "raised"
        /\ req[p].candidate = NoCode
        /\ req[p].result.code_changed = FALSE

\* C4: a modification invokes the AI service at most once, and only when the strategy
\* is AI regeneration or the targeted candidate was invalid or its validation raised;
\* a targeted request that escalates does so once, and a failed AI attempt ends in the
\* fallback.
C4_AiInvokedAtMostOnce ==
    \A p \in Requests :
        req[p].kind = "modify" =>
            /\ req[p].ai_calls <= 1
            /\ req[p].ai_calls = 1 =>
                  \/ req[p].strategy = "ai_regeneration"
                  \/ req[p].strategy = "targeted_change"
                        /\ req[p].targeted \in {"invalid", "raised"}
            /\ ( req[p].strategy = "targeted_change"
                    /\ req[p].targeted \in {"invalid", "raised"} )
                  => req[p].ai_calls = 1
            /\ ( req[p].pc = "done" /\ req[p].ai = "raised" )
                  => req[p].result.strategy_used = "fallback"

\* C4 witness: a targeted request whose candidate was invalid, escalated to the AI
\* service once, and ended in the fallback after the AI call failed.
C4_Witness ==
    \E p \in Requests :
        /\ req[p].kind = "modify"
        /\ req[p].pc = "done"
        /\ req[p].strategy = "targeted_change"
        /\ req[p].targeted = "invalid"
        /\ req[p].ai_calls = 1
        /\ req[p].ai = "raised"
        /\ req[p].result.strategy_used = "fallback"

\* C5 (as claimed): modification requests for one game are serialized; no two
\* apply_modification attempts are in progress at the same time.
C5_RequestsSerialized ==
    \A p \in Requests, q \in Requests :
        ( /\ p # q
          /\ req[p].kind = "modify"
          /\ req[q].kind = "modify" )
        => ~(req[p].pc \in {"wait", "call"} /\ req[q].pc \in {"wait", "call"})

\* A step that writes to the chain is one whole commit: one record more, the new tail
\* marked current and numbered current_version, its code_size that of the new artifact,
\* and no older record with another number still marked.
WholeCommit ==
    /\ Len(versions') = Len(versions) + 1
    /\ LET tail == versions'[Len(versions')]
       IN  /\ tail.is_current
           /\ tail.version = current_version'
           /\ tail.code_size = CodeSize(code')
           /\ \A i \in 1..Len(versions) :
                 versions'[i].version # tail.version => ~versions'[i].is_current

\* C6: the chain is never half-applied. A step that brings a request to a suspension
\* point leaves version list, current_version and artifact as they are, and any step of
\* a request that writes one of them is the end of that request and a whole commit
\* (for apply_modification: of the artifact of its result).
C6_NoHalfAppliedChain ==
    [][ChainExists =>
        \A p \in Requests :
            /\ ( StepOf(p) /\ req'[p].pc \in {"wait", "call"} )
               => UNCHANGED <<code, current_version, versions>>
            /\ ( StepOf(p) /\ <<code, current_version, versions>>' # <<code, current_version, versions>> )
               => /\ req'[p].pc = "done"
                  /\ WholeCommit
                  /\ req'[p].kind = "modify" =>
                        /\ req'[p].result.code_changed
                        /\ code' = req'[p].result.modified_code
      ]_vars

\* C6 witness: one modification has committed while another request is suspended in
\* the AI service.
C6_Witness ==
    \E p \in Requests, q \in Requests :
        /\ req[p].kind = "modify"
        /\ req[p].pc = "done"
        /\ req[p].result.code_changed
        /\ req[q].kind = "modify"
        /\ req[q].pc \in {"wait", "call"}

\* C7 (as claimed): a chain with zero or more than one version marked is_current is
\* never appended to or otherwise changed; the append is rejected.
C7_InvalidChainRejected ==
    [][( ChainExists /\ Cardinality(CurrentMarks(versions)) # 1 )
          => UNCHANGED <<code, current_version, versions>>
      ]_vars

\* C8: on a chain built by the program, every append adds a record numbered
\* max(existing) + 1 whose parent_version is the number of the record marked current
\* before; afterwards the previous tail is unmarked and the new record is marked.
C8_AppendNumbersAndParent ==
    [][( origin = "generated" /\ Len(versions') > Len(versions) )
          => LET new == versions'[Len(versions')]
             IN  /\ Len(versions') = Len(versions) + 1
                 /\ new.version = MaxVersionNumber(versions) + 1
                 /\ \E i \in CurrentMarks(versions) : new.parent_version = versions[i].version
                 /\ \A i \in CurrentMarks(versions) : new.parent_version = versions[i].version
                 /\ ~versions'[Len(versions)].is_current
                 /\ new.is_current
      ]_vars

\* C8 witness: a generated chain whose second record was appended by a targeted patch
\* and whose third by a later request.
C8_Witness ==
    /\ origin = "generated"
    /\ Len(versions) >= 3
    /\ versions[2].modifications_applied = <<"Changed colors">>
    /\ versions[3].parent_version = 2

\* The fields of a record other than is_current.
Unmarked(v) == [v EXCEPT !.is_current = FALSE]

\* C9: no request removes or reorders records or changes a field other than is_current:
\* the records before a step are, mark aside, a prefix of the records after it.
C9_RecordsArePrefix ==
    [][ChainExists =>
        /\ Len(versions') >= Len(versions)
        /\ \A i \in 1..Len(versions) : Unmarked(versions'[i]) = Unmarked(versions[i])
      ]_vars

\* C9 witness: a chain of three records to which a regeneration appended after a patch,
\* with a revert request answered in between.
C9_Witness ==
    /\ Len(versions) >= 3
    /\ versions[2].modifications_applied = <<"Changed colors">>
    /\ versions[3].modifications_applied = <<"regeneration">>
    /\ \E p \in Requests : req[p].kind = "revert" /\ req[p].pc = "done"

\* C10: on a chain built by the program, version 1 has no parent_version and every
\* other version's parent_version is the number of a lower version of the same chain.
C10_ParentsExistAndAreLower ==
    origin = "generated" =>
        \A i \in 1..Len(versions) :
            IF versions[i].version = 1
              THEN versions[i].parent_version = NoParent
              ELSE /\ versions[i].parent_version < versions[i].version
                   /\ \E j \in 1..Len(versions) :
                         versions[j].version = versions[i].parent_version

\* C10 witness: a generated chain whose second record comes from a regeneration and
\* whose third from a targeted patch.
C10_Witness ==
    /\ origin = "generated"
    /\ Len(versions) >= 3
    /\ versions[2].modifications_applied = <<"regeneration">>
    /\ versions[3].modifications_applied = <<"Changed colors">>

C12_CachedResponseRevalidated ==
    [][\A p \in Requests :
        ( /\ StepOf(p)
          /\ req'[p].pc = "done"
          /\ req'[p].ai = "cached"
          /\ ~IsValidArtifact(req'[p].candidate) )
        => /\ req'[p].result.strategy_used = "fallback"
           /\ UNCHANGED <<code, current_version, versions>>
      ]_vars

\* C13 (as claimed): a modification appends a version if and only if the candidate of
\* its result passes the validator and differs from the artifact that is current when
\* the request ends; a candidate equal to the current artifact appends nothing.
C13_AppendIffValidAndChanged ==
    [][\A p \in Requests :
        ( StepOf(p) /\ req'[p].kind = "modify" /\ req'[p].pc = "done" )
        => ( Len(versions') = Len(versions) + 1
               <=> /\ IsValidArtifact(req'[p].result.modified_code)
                   /\ req'[p].result.modified_code # code )
      ]_vars

\* C14 (as claimed): a modification that commits returns the Diff Summary of the old and
\* the new artifact in its result: the returned dictionary holds it under a key of its
\* own or holds its fields.
C14_CommitReturnsDiffSummary ==
    [][\A p \in Requests :
        ( /\ StepOf(p)
          /\ req'[p].kind = "modify"
          /\ req'[p].pc = "done"
          /\ Len(versions') = Len(versions) + 1 )
        => \/ "diff_summary" \in ReturnedKeys(req'[p].result)
           \/ DiffSummaryFields \subseteq ReturnedKeys(req'[p].result)
      ]_vars

\* C15: the selector answers targeted_change with confidence simple_score over the size
\* of the simple family exactly when simple_score > complex_score and simple_score > 0;
\* otherwise it answers ai_regeneration with confidence complex_score over the size of
\* the complex family, or one half when both scores are zero.
C15_SelectorRule ==
    ( helper_call.fn = "analyze" /\ helper_call.stage = "value" ) =>
        LET s == Cardinality({w \in helper_call.message : w \in simple_patterns})
            c == Cardinality({w \in helper_call.message : w \in complex_patterns})
            a == helper_call.value
        IN  /\ a.strategy \in {"targeted_change", "ai_regeneration"}
            /\ a.strategy = "targeted_change" <=> (s > c /\ s > 0)
            /\ a.strategy = "targeted_change" => a.confidence = <<s, 10>>
            /\ ( a.strategy = "ai_regeneration" /\ ~(s = 0 /\ c = 0) )
                  => a.confidence = <<c, 9>>
            /\ ( a.strategy = "ai_regeneration" /\ s = 0 /\ c = 0 )
                  => a.confidence = <<1, 2>>

\* C15 witness: a text with as many simple as complex keywords was analysed and went to
\* AI regeneration.
C15_Witness ==
    /\ helper_call.fn = "analyze"
    /\ helper_call.stage = "value"
    /\ helper_call.message = {"red", "add"}
    /\ helper_call.value.strategy = "ai_regeneration"

\* The artifact holds the colour old_color as a quoted literal.
HoldsQuoted(a, old_color) ==
    \E i \in 1..Len(a) :
        /\ i + 2 <= Len(a)
        /\ a[i] \in Quotes
        /\ a[i + 1] = old_color
        /\ a[i + 2] \in Quotes

\* C16 (as claimed): for the request "make the player red" and an artifact that holds
\* the colour #0066cc as a quoted literal, the selector chooses the targeted patch and
\* the patch changes the artifact, which then holds the red hex value.
C16_MakeThePlayerRed ==
    ( /\ helper_call.fn = "patch"
      /\ helper_call.stage = "once"
      /\ helper_call.message = {"red"}
      /\ HoldsQuoted(helper_call.code, "#0066cc") )
    => /\ helper_call.analysis.strategy = "targeted_change"
       /\ helper_call.first.code_changed
       /\ Contains(helper_call.first.modified_code, "#ff0000")

\* C17 (as claimed): a sub-transform that reports a change or a tag has rewritten the
\* artifact, and a targeted patch that reports a tag returns an artifact that differs
\* from the one it was given (the colour sub-transform is looked at for the requests
\* on which the targeted patch calls it).
C17_TagOnlyWithRewrite ==
    ( /\ helper_call.fn = "patch"
      /\ helper_call.stage = "once"
      /\ "color" \in helper_call.message )
    => /\ helper_call.color_result.changed
            => helper_call.color_result.code # helper_call.code
       /\ helper_call.color_result.changes # <<>>
            => helper_call.color_result.code # helper_call.code
       /\ helper_call.first.modifications_applied # <<>>
            => helper_call.first.modified_code # helper_call.code

\* C18 (as claimed): patching the patched artifact with the same request gives the
\* patched artifact again.
C18_PatchIdempotent ==
    ( helper_call.fn = "patch" /\ helper_call.stage = "twice" )
    => helper_call.second.modified_code = helper_call.first.modified_code

\* C19: the verdict of validate_game_code is valid exactly when its errors and its
\* security_issues are both empty, in every validation level; in strict mode the errors
\* hold those of the strict pass.
C19_ValidIffNoErrorsNoIssues ==
    ( helper_call.fn = "validate" /\ helper_call.stage = "value" )
    => /\ helper_call.value.is_valid
            <=> /\ helper_call.value.errors = <<>>
                /\ helper_call.value.security_issues = <<>>
       /\ helper_call.validation_level = "strict"
            => \A i \in 1..Len(ApplyStrictValidation(helper_call.code).errors) :
                  \E j \in 1..Len(helper_call.value.errors) :
                     helper_call.value.errors[j]
                        = ApplyStrictValidation(helper_call.code).errors[i]

\* C19 witness: a strict validation of an artifact whose only fault is a link to an
\* allowed domain: the structure and security passes find nothing, the strict pass
\* adds an error and the verdict is invalid.
C19_Witness ==
    /\ helper_call.fn = "validate"
    /\ helper_call.stage = "value"
    /\ helper_call.validation_level = "strict"
    /\ helper_call.code = <<"DOCTYPE", "BODY", "LINK">>
    /\ helper_call.value.security_issues = <<>>
    /\ helper_call.value.errors = << "External resources not allowed in strict mode" >>
    /\ ~helper_call.value.is_valid

\* C20 (as claimed): validate_game_code returns a verdict and never raises, and when a
\* validation pass cannot process the artifact the verdict is invalid and its errors
\* are not empty.
C20_FailedPassGivesInvalidVerdict ==
    ( helper_call.fn = "validate" /\ helper_call.stage = "value" )
    => /\ ~helper_call.value.raised
       /\ FailingPasses(helper_call.code) # {}
            => /\ ~helper_call.value.is_valid
               /\ helper_call.value.errors # <<>>

\* C21 (as claimed): two calls of validate_game_code on the same artifact at the same
\* validation level return the same verdict: the same is_valid, errors, warnings,
\* security_issues and metrics.
C21_ValidationDeterministic ==
    ( helper_call.fn = "validate" /\ helper_call.stage = "twice" )
    => /\ helper_call.second.is_valid = helper_call.value.is_valid
       /\ helper_call.second.errors = helper_call.value.errors
       /\ helper_call.second.warnings = helper_call.value.warnings
       /\ helper_call.second.security_issues = helper_call.value.security_issues
       /\ helper_call.second.code_metrics = helper_call.value.code_metrics

\* The list holds the message.
Lists(messages, text) == \E i \in 1..Len(messages) : messages[i] = text

\* C22 (as claimed): in strict mode the verdict on an artifact that holds an assignment
\* to innerHTML, plain or compound, is invalid and lists the innerHTML pattern under
\* security_issues.
C22_StrictFlagsInnerHtml ==
    ( /\ helper_call.fn = "validate"
      /\ helper_call.stage = "value"
      /\ helper_call.validation_level = "strict"
      /\ \/ Contains(helper_call.code, "INNERHTML")
         \/ Contains(helper_call.code, "INNERHTML_ADD") )
    => /\ ~helper_call.value.is_valid
       /\ Lists(helper_call.value.security_issues, "Dangerous pattern detected: innerHTML")

\* C23 (as claimed): for an artifact without the DOCTYPE declaration validate_game_code
\* returns an invalid verdict with an error that names the missing declaration, at
\* every validation level of CodeValidator and in ComprehensiveValidator.
C23_MissingDoctypeIsInvalid ==
    ( /\ helper_call.fn = "validate"
      /\ helper_call.stage = "value"
      /\ ~Contains(helper_call.code, "DOCTYPE") )
    => /\ ~helper_call.value.is_valid
       /\ Lists(helper_call.value.errors, "Missing DOCTYPE declaration")
       /\ ~helper_call.gate.raised
       /\ ~helper_call.gate.is_valid
       /\ MentionsDoctype(helper_call.gate.issues)

\* C24 (as claimed): for two artifacts that differ only in one numeric literal,
\* analyze_code_diff reports a change_percentage below 5% and calculate_change_impact
\* reports the impact level low, whatever the number of lines.
C24_OneLiteralIsSmallChange ==
    ( helper_call.fn = "diff" /\ helper_call.stage = "value" )
    => /\ helper_call.summary.change_percentage < 500
       /\ helper_call.impact.impact_level = "low"

\* C25: calculate_change_impact answers high exactly when the size changes by more than
\* 50% of the old size, or the number of functions by more than 3, or the number of
\* variables by more than 5; otherwise medium exactly when the size changes by more
\* than 20%, or the functions by more than 1, or the variables by more than 2;
\* otherwise low. A change that equals a threshold does not cross it.
C25_ImpactThresholds ==
    ( helper_call.fn = "impact" /\ helper_call.stage = "value" )
    => LET o  == helper_call.old
           n  == helper_call.new
           m  == IF o.size > 1 THEN o.size ELSE 1
           sd == IF n.size >= o.size THEN n.size - o.size ELSE o.size - n.size
           fd == IF n.functions >= o.functions
                   THEN n.functions - o.functions ELSE o.functions - n.functions
           vd == IF n.vars >= o.vars THEN n.vars - o.vars ELSE o.vars - n.vars
           high   == 100 * sd > 50 * m \/ fd > 3 \/ vd > 5
           medium == 100 * sd > 20 * m \/ fd > 1 \/ vd > 2
           level  == helper_call.impact.impact_level
       IN  /\ level \in {"high", "medium", "low"}
           /\ level = "high" <=> high
           /\ level = "medium" <=> (~high /\ medium)
           /\ level = "low" <=> (~high /\ ~medium)

\* C25 witness: an artifact of 10 characters grew to 15, exactly 50%, without a change
\* of its declarations, and the impact is medium.
C25_Witness ==
    /\ helper_call.fn = "impact"
    /\ helper_call.stage = "value"
    /\ helper_call.old = [size |-> 10, functions |-> 0, vars |-> 0]
    /\ helper_call.new = [size |-> 15, functions |-> 0, vars |-> 0]
    /\ helper_call.impact.impact_level = "medium"

\* Both coroutines have finished a modification answered from the cache, both had read
\* the same artifact before either wrote, and both results say the code changed.
BothCommittedFromOneArtifact ==
    /\ \A p \in Requests :
          /\ req[p].kind = "modify"
          /\ req[p].pc = "done"
          /\ req[p].ai = "cached"
          /\ req[p].result.code_changed
    /\ \A p, q \in Requests : req[p].current_code = req[q].current_code

\* C26: the version numbers of a chain strictly increase along the chain, so no two
\* records share a number, also when two modifications that were suspended in the AI
\* service at the same time both commit.
C26_VersionNumbersIncrease ==
    ChainExists =>
        \A i, j \in 1..Len(versions) :
            i < j => versions[i].version < versions[j].version

\* C26 witness: a generated chain of three records of which the second and the third
\* were committed by two modifications that were in the AI service at the same time.
C26_Witness ==
    /\ origin = "generated"
    /\ Len(versions) = 3
    /\ BothCommittedFromOneArtifact

\* C27 (as claimed): a modification that commits a version built it from the artifact
\* of the version it records as parent_version, that is from the artifact that is
\* current when it commits.
C27_BuiltFromParentArtifact ==
    [][\A p \in Requests :
        ( /\ StepOf(p)
          /\ req'[p].kind = "modify"
          /\ req'[p].pc = "done"
          /\ origin = "generated"
          /\ Len(versions') = Len(versions) + 1 )
        => /\ versions'[Len(versions')].parent_version = current_version
           /\ req'[p].ai \in {"returned", "cached"} => req[p].current_code = code
      ]_vars

\* C28: once generate_game has built the chain, and after every modification and
\* regeneration on it, current_version is the number of the last record and the
\* code_size of that record is the size of code.
C28_LastRecordDescribesCode ==
    origin = "generated" =>
        /\ current_version = versions[Len(versions)].version
        /\ versions[Len(versions)].code_size = CodeSize(code)

\* C28 witness: a generated chain whose last record was appended by a regeneration
\* after a modification had appended the one before.
C28_Witness ==
    /\ origin = "generated"
    /\ Len(versions) >= 3
    /\ versions[Len(versions)].modifications_applied = <<"regeneration">>
    /\ versions[Len(versions) - 1].modifications_applied # <<"regeneration">>
    /\ versions[Len(versions) - 1].code_size # versions[Len(versions)].code_size

\* The response texts of _generate_modification_response.
AppliedResponses ==
    { "I've updated your game as requested!", "I've applied the following change",
      "I've applied the following changes" }

\* C29 (as claimed): a modification that ends with the targeted or the fallback result
\* answers that changes were applied only when code_changed is true and a version was
\* appended, and when no version is appended it answers that the modification could
\* not be applied.
C29_ResponseMatchesCommit ==
    [][\A p \in Requests :
        ( /\ StepOf(p)
          /\ req'[p].kind = "modify"
          /\ req'[p].pc = "done"
          /\ req'[p].result.strategy_used \in {"targeted_change", "fallback"} )
        => /\ req'[p].result.ai_response \in AppliedResponses
                => /\ req'[p].result.code_changed
                   /\ Len(versions') = Len(versions) + 1
           /\ Len(versions') = Len(versions)
                => req'[p].result.ai_response = FallbackModification(code).ai_response
      ]_vars

\* C30: the wrapped function is never invoked while the breaker is OPEN and the
\* recovery timeout has not passed since the last failure; the breaker opens from
\* CLOSED exactly on the failure that is the third in a row; a failed trial in
\* HALF_OPEN opens it again; a call that succeeds closes it and sets failure_count to 0.
C30_BreakerProtocol ==
    [][ /\ helper_call.fn = "breaker"
        /\ helper_call'.fn = "breaker"
        => /\ helper_call'.event = "invoked"
                => ~( /\ helper_call.state = "OPEN"
                      /\ helper_call.now - helper_call.last_failure_time
                            <= RecoveryTimeout )
           /\ ( helper_call.state # "OPEN" /\ helper_call'.state = "OPEN" )
                => helper_call'.event = "failure"
           /\ ( helper_call.state = "CLOSED" /\ helper_call'.event = "failure" )
                => ( helper_call'.state = "OPEN"
                        <=> helper_call'.streak = FailureThreshold )
           /\ ( helper_call.state = "HALF_OPEN" /\ helper_call'.event = "failure" )
                => helper_call'.state = "OPEN"
           /\ helper_call'.event = "success"
                => /\ helper_call'.state = "CLOSED"
                   /\ helper_call'.failure_count = 0
      ]_vars

\* C30 witness: the breaker opened on the third failure, let a trial through after the
\* timeout, and the trial failed: it is OPEN again with four failures counted.
C30_Witness ==
    /\ helper_call.fn = "breaker"
    /\ helper_call.state = "OPEN"
    /\ helper_call.event = "failure"
    /\ helper_call.failure_count = FailureThreshold + 1

====
